---- MODULE Spec2Model ----
(***************************************************************************)
(* Model of the aggregation and orchestration core of TTL-YT-HELPER:       *)
(*   src/app/api/gatherNews/route.ts      news fan-out, dedup, rank        *)
(*   src/app/api/gatherAssets/route.ts    asset fan-out, image dedup       *)
(*   src/app/api/generateContent/route.ts six-stage content pipeline       *)
(* Strings are sequences of one-character strings, so that normalisation,  *)
(* tokenising and query-string stripping are computed, not assumed.        *)
(***************************************************************************)
EXTENDS Integers, Sequences, FiniteSets, TLC

VARIABLES
    \* calculateSimilarity applied to a pair of strings
    simPc, str1, str2, simFwd, simRev,
    \* removeDuplicateArticles applied to a list of articles
    dedupPc, dedupIn, dedupOut,
    \* removeDuplicateImages applied to a list of images
    imgPc, imgIn, imgOut,
    \* the news aggregation endpoint: position, request, credentials in the
    \* environment, the three adapter promises, the order in which they
    \* settled, outbound calls made, the merged list, the response
    nPc, nReq, nEnv, nTask, nOrder, nCalls, nMerged, nResp,
    \* the content pipeline endpoint: position, request, outcome of the
    \* text-generation call, the script package, the audio, video and image
    \* payloads, the archive entries, the three URLs, the response, the
    \* stages started so far, and the answers of the lookups and uploads
    pPc, pReq, pGemini, pPackage, pVoice, pVideos, pImages, pZip, pUrls, pResp, pLog, pLookup,
    \* the asset aggregation endpoint: position, request, credentials in the
    \* environment, outcome of each adapter call, outbound calls made, the
    \* two gatherers (next source, list so far, promise), the response
    aPc, aReq, aEnv, aSrc, aCalls, aImg, aVid, aResp,
    \* the credential test endpoint: position, request, the probes made so
    \* far with their outcomes, lastError of the Gemini test, the response
    tPc, tReq, tProbes, tLastError, tResp

simVars == <<simPc, str1, str2, simFwd, simRev>>
dedupVars == <<dedupPc, dedupIn, dedupOut>>
imgVars == <<imgPc, imgIn, imgOut>>
newsVars == <<nPc, nReq, nEnv, nTask, nOrder, nCalls, nMerged, nResp>>
pipeVars == <<pPc, pReq, pGemini, pPackage, pVoice, pVideos, pImages, pZip, pUrls, pResp, pLog, pLookup>>
assetVars == <<aPc, aReq, aEnv, aSrc, aCalls, aImg, aVid, aResp>>
testVars == <<tPc, tReq, tProbes, tLastError, tResp>>
vars == <<simVars, dedupVars, imgVars, newsVars, pipeVars, assetVars, testVars>>

\* ------------------------------------------------------------------------
\* Bounds of the model
\* ------------------------------------------------------------------------
MaxStrLen == 3
\* longest title of the dedup inputs, in words, and longest dedup input
NumWords == 5
MaxDedupLen == 3
\* longest download URL, in characters, and longest image dedup input
MaxUrlLen == 2
MaxImages == 3
\* most records the providers return in all to one news request, and the
\* length of the one long answer (more than the endpoint returns)
MaxNewsTotal == 2
LongLen == 21
\* most '###' separators in a generated text
MaxSections == 5
\* most records the image providers return in all to one asset request
MaxAssetTotal == 2

\* ------------------------------------------------------------------------
\* Characters and the string primitives the routes use
\* ------------------------------------------------------------------------
LowerLetters ==
    <<"a","b","c","d","e","f","g","h","i","j","k","l","m",
      "n","o","p","q","r","s","t","u","v","w","x","y","z">>
UpperLetters ==
    <<"A","B","C","D","E","F","G","H","I","J","K","L","M",
      "N","O","P","Q","R","S","T","U","V","W","X","Y","Z">>
DigitChars == {"0","1","2","3","4","5","6","7","8","9"}

Range(f) == {f[i] : i \in DOMAIN f}
MinOf(S) == CHOOSE x \in S : \A y \in S : x <= y
MaxOf(S) == CHOOSE x \in S : \A y \in S : x >= y

\* the character class \w of the regular expression in removeDuplicateArticles
WordChars == Range(LowerLetters) \cup Range(UpperLetters) \cup DigitChars \cup {"_"}
IsWordChar(c) == c \in WordChars
\* the character class \s (also what String.prototype.trim removes)
SpaceChars == {" ", "\t", "\n"}
IsSpaceChar(c) == c \in SpaceChars

LowerOfChar(c) ==
    IF \E i \in DOMAIN UpperLetters : UpperLetters[i] = c
    THEN LowerLetters[CHOOSE i \in DOMAIN UpperLetters : UpperLetters[i] = c]
    ELSE c

\* String.prototype.toLowerCase
toLowerCase(s) == [i \in 1..Len(s) |-> LowerOfChar(s[i])]

KeptByTitleRegex(c) == IsWordChar(c) \/ IsSpaceChar(c)
\* s.replace(/[^\w\s]/g, '')
stripNonWord(s) == SelectSeq(s, KeptByTitleRegex)

\* String.prototype.trim
trim(s) ==
    LET keep == {i \in 1..Len(s) : ~IsSpaceChar(s[i])}
    IN  IF keep = {} THEN <<>> ELSE SubSeq(s, MinOf(keep), MaxOf(keep))

\* String.prototype.split with a one-element separator: empty pieces are kept
RECURSIVE split(_, _)
split(s, sep) ==
    LET pos == {i \in 1..Len(s) : s[i] = sep}
    IN  IF pos = {} THEN <<s>>
        ELSE LET p == MinOf(pos)
             IN  <<SubSeq(s, 1, p - 1)>> \o split(SubSeq(s, p + 1, Len(s)), sep)

\* all sequences over S of length at most n
SeqsUpTo(S, n) == UNION {[1..k -> S] : k \in 0..n}

\* ------------------------------------------------------------------------
\* gatherNews/route.ts : calculateSimilarity (Jaccard index)
\* ------------------------------------------------------------------------
\* new Set(str.split(' '))
wordSet(str) == Range(split(str, " "))

\* new Set([...set1].filter(x => set2.has(x)))
intersectionOf(set1, set2) == {x \in set1 : x \in set2}

unionOfFirstOnly(set1, set2) == set1
\* new Set([...set1, ...set2])
unionOf(set1, set2) == set1 \cup set2

\* intersection.size / union.size, kept as an exact fraction
calculateSimilarity(s1, s2) ==
    LET set1 == wordSet(s1)
        set2 == wordSet(s2)
    IN  [num |-> Cardinality(intersectionOf(set1, set2)),
         den |-> Cardinality(unionOf(set1, set2))]

\* equality and order of two quotients of small naturals (exact in doubles)
RatioEq(r, q) == r.num * q.den = q.num * r.den
RatioLess(r, q) == r.num * q.den < q.num * r.den

NoRatio == [num |-> 0, den |-> 0]

\* ------------------------------------------------------------------------
\* gatherNews/route.ts : removeDuplicateArticles
\* ------------------------------------------------------------------------
\* An article is [id, hasTitle, title, publishedAt]; hasTitle = FALSE is a
\* record whose title is null or undefined in the provider's JSON.
MkArticle(id, hasTitle, title, publishedAt) ==
    [id |-> id, hasTitle |-> hasTitle, title |-> title, publishedAt |-> publishedAt]

\* article.title.toLowerCase().replace(/[^\w\s]/g, '').trim()
normalizeTitle(title) == trim(stripNonWord(toLowerCase(title)))

\* calculateSimilarity(...) > 0.8
exceedsThreshold(r) == 10 * r.num > 8 * r.den

isDuplicateOfLastSeen(normalizedTitle, seenTitles) ==
    /\ seenTitles # <<>>
    /\ exceedsThreshold(calculateSimilarity(normalizedTitle, seenTitles[Len(seenTitles)]))
\* the inner loop over seenTitles (a Set, iterated in insertion order)
isDuplicate(normalizedTitle, seenTitles) ==
    \E i \in 1..Len(seenTitles) :
        exceedsThreshold(calculateSimilarity(normalizedTitle, seenTitles[i]))

\* the outer loop: unique and seenTitles grow together
RECURSIVE dedupLoop(_, _, _)
dedupLoop(articles, unique, seenTitles) ==
    IF articles = <<>> THEN unique
    ELSE LET article == Head(articles)
             normalizedTitle == normalizeTitle(article.title)
         IN  IF isDuplicate(normalizedTitle, seenTitles)
             THEN dedupLoop(Tail(articles), unique, seenTitles)
             ELSE dedupLoop(Tail(articles), Append(unique, article),
                            Append(seenTitles, normalizedTitle))

\* article.title.toLowerCase() is a TypeError when the title is missing
dedupThrows(articles) == \E i \in 1..Len(articles) : ~articles[i].hasTitle

\* the outer loop leaving at the first duplicate it drops: the articles
\* after it are kept as they are
RECURSIVE dedupLoopUntilFirstDrop(_, _, _)
dedupLoopUntilFirstDrop(articles, unique, seenTitles) ==
    IF articles = <<>> THEN unique
    ELSE LET article == Head(articles)
             normalizedTitle == normalizeTitle(article.title)
         IN  IF isDuplicate(normalizedTitle, seenTitles)
             THEN unique \o Tail(articles)
             ELSE dedupLoopUntilFirstDrop(Tail(articles), Append(unique, article),
                                          Append(seenTitles, normalizedTitle))
removeDuplicateArticlesUntilFirstDrop(articles) ==
    IF dedupThrows(articles)
    THEN [threw |-> TRUE, value |-> <<>>]
    ELSE [threw |-> FALSE, value |-> dedupLoopUntilFirstDrop(articles, <<>>, <<>>)]
\* the outcome of a call: the returned list, or the exception
removeDuplicateArticles(articles) ==
    IF dedupThrows(articles)
    THEN [threw |-> TRUE, value |-> <<>>]
    ELSE [threw |-> FALSE, value |-> dedupLoop(articles, <<>>, <<>>)]

\* ------------------------------------------------------------------------
\* gatherAssets/route.ts : removeDuplicateImages
\* ------------------------------------------------------------------------
\* An image is [id, hasUrl, downloadUrl]; hasUrl = FALSE is a record whose
\* downloadUrl is undefined (the provider's JSON had no such field).
MkImage(id, hasUrl, downloadUrl) ==
    [id |-> id, hasUrl |-> hasUrl, downloadUrl |-> downloadUrl]

urlKeyUnstripped(downloadUrl) == downloadUrl
\* image.downloadUrl.split('?')[0]
urlKey(downloadUrl) == Head(split(downloadUrl, "?"))

\* the loop: unique and seenUrls grow together
RECURSIVE imageLoop(_, _, _)
imageLoop(images, unique, seenUrls) ==
    IF images = <<>> THEN unique
    ELSE LET image == Head(images)
             key == urlKey(image.downloadUrl)
         IN  IF key \notin seenUrls
             THEN imageLoop(Tail(images), Append(unique, image), seenUrls \cup {key})
             ELSE imageLoop(Tail(images), unique, seenUrls)

\* image.downloadUrl.split is a TypeError when downloadUrl is missing
imageDedupThrows(images) == \E i \in 1..Len(images) : ~images[i].hasUrl

removeDuplicateImages(images) ==
    IF imageDedupThrows(images)
    THEN [threw |-> TRUE, value |-> <<>>]
    ELSE [threw |-> FALSE, value |-> imageLoop(images, <<>>, {})]

\* ------------------------------------------------------------------------
\* gatherNews/route.ts : the three source adapters
\* ------------------------------------------------------------------------
\* in the order of the array given to Promise.allSettled
NewsAdapters == <<"NewsAPI", "TheNewsAPI", "GNews">>
NewsAdapterSet == Range(NewsAdapters)
AdapterIndex(a) == CHOOSE i \in DOMAIN NewsAdapters : NewsAdapters[i] = a

NotStarted == [status |-> "notStarted", value |-> <<>>]
Pending == [status |-> "pending", value |-> <<>>]
Rejected == [status |-> "rejected", value |-> <<>>]
Fulfilled(list) == [status |-> "fulfilled", value |-> list]

\* A record of a provider's JSON: [hasTitle, title, publishedAt, hasSource].
\* The adapters copy title and date as they are; record i of adapter a
\* becomes the article with id <<index of a, i>>.
toArticles(a, raw) ==
    [i \in 1..Len(raw) |->
        MkArticle(<<AdapterIndex(a), i>>, raw[i].hasTitle, raw[i].title, raw[i].publishedAt)]

\* what each adapter does when its credential is not in the environment
adapterWithoutKey(a) ==
    IF a = "NewsAPI" THEN Rejected      \* throw new Error('NEWS_API_KEY not configured')
    ELSE Fulfilled(<<>>)                \* return []

\* the outcomes of a fetch that carry no list of records
FailedResponses ==
    {[kind |-> k, hasList |-> FALSE, list |-> <<>>] :
        k \in {"networkError", "httpError", "badBody", "ok"}}

\* what each adapter does with the outcome of its fetch:
\*   kind "networkError"  fetch rejects
\*   kind "httpError"     !response.ok, the adapter throws
\*   kind "badBody"       response.json() rejects or yields null
\*   kind "ok"            body.hasList says whether the list field exists
adapterOnResponse(a, resp) ==
    IF resp.kind # "ok" THEN Rejected
    ELSE LET raw == IF resp.hasList THEN resp.list ELSE <<>>      \* data.articles || []
         IN  IF a = "GNews" /\ \E i \in 1..Len(raw) : ~raw[i].hasSource
             THEN Rejected              \* article.source.name of undefined
             ELSE Fulfilled(toArticles(a, raw))

\* ------------------------------------------------------------------------
\* gatherNews/route.ts : POST, after the fan-out has settled
\* ------------------------------------------------------------------------
joinOnFirstSettled(results) ==
    \E a \in NewsAdapterSet : results[a].status \in {"fulfilled", "rejected"}
\* await Promise.allSettled([...]) resumes when every promise has settled
joinReady(results) ==
    \A a \in NewsAdapterSet : results[a].status \in {"fulfilled", "rejected"}

contributes(result) == result.status = "fulfilled" /\ Len(result.value) > 0
contributesWhenFulfilled(result) == result.status = "fulfilled"

\* newsResults.forEach: allArticles = [...allArticles, ...result.value]
RECURSIVE combineFrom(_, _)
combineFrom(results, k) ==
    IF k > Len(NewsAdapters) THEN <<>>
    ELSE (IF contributes(results[NewsAdapters[k]])
          THEN results[NewsAdapters[k]].value ELSE <<>>)
         \o combineFrom(results, k + 1)
\* the merge taken in the order in which the calls completed
RECURSIVE combineInOrder(_, _, _)
combineInOrder(results, order, k) ==
    IF k > Len(order) THEN <<>>
    ELSE (IF contributes(results[order[k]]) THEN results[order[k]].value ELSE <<>>)
         \o combineInOrder(results, order, k + 1)
combineInCompletionOrder(results) == combineInOrder(results, nOrder, 1)
combineResults(results) == combineFrom(results, 1)

countAllFulfilled(results) ==
    Cardinality({a \in NewsAdapterSet : contributesWhenFulfilled(results[a])})
\* successfulSources++
countSuccessful(results) ==
    Cardinality({a \in NewsAdapterSet : contributes(results[a])})

\* new Date(publishedAt).getTime() of a date that does not parse is NaN
InvalidDate == -1
isNaNTime(t) == t = InvalidDate

\* (a, b) => new Date(b.publishedAt).getTime() - new Date(a.publishedAt).getTime()
\* as Array.prototype.sort reads it: a NaN result counts as 0
sortCompare(a, b) ==
    IF isNaNTime(a.publishedAt) \/ isNaNTime(b.publishedAt) THEN 0
    ELSE b.publishedAt - a.publishedAt

ReverseSeq(s) == [i \in 1..Len(s) |-> s[Len(s) + 1 - i]]

\* Array.prototype.sort as the runtime (V8) runs it on an array shorter than
\* 64: the leading run is found (and reversed when strictly descending),
\* then every later element is placed by binary insertion.
RECURSIVE runLengthFrom(_, _, _, _)
runLengthFrom(arr, idx, isDescending, runLength) ==
    IF idx > Len(arr) THEN runLength
    ELSE LET order == sortCompare(arr[idx], arr[idx - 1])
         IN  IF (isDescending /\ order >= 0) \/ (~isDescending /\ order < 0)
             THEN runLength
             ELSE runLengthFrom(arr, idx + 1, isDescending, runLength + 1)

countAndMakeRun(arr) ==
    LET isDescending == sortCompare(arr[2], arr[1]) < 0
        runLength == runLengthFrom(arr, 3, isDescending, 2)
    IN  [arr |-> IF isDescending
                 THEN ReverseSeq(SubSeq(arr, 1, runLength)) \o SubSeq(arr, runLength + 1, Len(arr))
                 ELSE arr,
         run |-> runLength]

RECURSIVE insertionPoint(_, _, _, _)
insertionPoint(arr, pivot, left, right) ==
    IF left >= right THEN left
    ELSE LET mid == left + ((right - left) \div 2)
         IN  IF sortCompare(pivot, arr[mid]) < 0
             THEN insertionPoint(arr, pivot, left, mid)
             ELSE insertionPoint(arr, pivot, mid + 1, right)

RECURSIVE binaryInsertionSort(_, _)
binaryInsertionSort(arr, start) ==
    IF start > Len(arr) THEN arr
    ELSE LET pivot == arr[start]
             pos == insertionPoint(arr, pivot, 1, start)
         IN  binaryInsertionSort(
                 SubSeq(arr, 1, pos - 1) \o <<pivot>> \o SubSeq(arr, pos, start - 1)
                     \o SubSeq(arr, start + 1, Len(arr)),
                 start + 1)

unsortedArticles(arr) == arr
\* uniqueArticles.sort(...)
sortArticles(arr) ==
    IF Len(arr) < 2 THEN arr
    ELSE LET r == countAndMakeRun(arr)
         IN  binaryInsertionSort(r.arr, r.run + 1)

\* Array.prototype.slice(0, end)
slice0(arr, end) ==
    LET stop == IF end < 0 THEN (IF Len(arr) + end < 0 THEN 0 ELSE Len(arr) + end)
                ELSE (IF end > Len(arr) THEN Len(arr) ELSE end)
    IN  SubSeq(arr, 1, stop)

\* "Limit to top 20 articles"
MaxArticles == 20

NoResponse ==
    [status |-> 0, success |-> FALSE, totalResults |-> 0, sourcesUsed |-> 0,
     articles |-> <<>>, details |-> ""]

\* the catch block of POST
newsErrorResponse(message) ==
    [status |-> 500, success |-> FALSE, totalResults |-> 0, sourcesUsed |-> 0,
     articles |-> <<>>, details |-> message]

\* lines 88-117: dedup, sort, truncate, respond; a throw lands in catch
newsRespondFrom(allArticles, successfulSources) ==
    LET deduped == removeDuplicateArticles(allArticles)
    IN  IF deduped.threw
        THEN newsErrorResponse("Cannot read properties of undefined (reading 'toLowerCase')")
        ELSE LET topArticles == slice0(sortArticles(deduped.value), MaxArticles)
             IN  [status |-> 200, success |-> TRUE,
                  totalResults |-> Len(topArticles),
                  sourcesUsed |-> successfulSources,
                  articles |-> topArticles, details |-> ""]

\* lines 74-117: merge, then the above
newsRespond(results) ==
    newsRespondFrom(combineResults(results), countSuccessful(results))

\* ------------------------------------------------------------------------
\* generateContent/route.ts : generateWithGemini
\* ------------------------------------------------------------------------
\* The generated text is a sequence of atoms: the separator "###", the five
\* section names, the line break, the comma, the space, and "x" for any
\* other run of text.
SectionNames == <<"TITLES", "SCRIPT", "BROLL_KEYWORDS", "IMAGE_CONCEPTS", "EDITING_GUIDE">>

\* String.prototype.replace(name, ''): only the first occurrence goes
replaceFirst(s, name) ==
    LET pos == {i \in 1..Len(s) : s[i] = name}
    IN  IF pos = {} THEN s
        ELSE SubSeq(s, 1, MinOf(pos) - 1) \o SubSeq(s, MinOf(pos) + 1, Len(s))

NonEmptyPiece(p) == p # <<>>
\* .filter(Boolean) on an array of strings
filterBoolean(pieces) == SelectSeq(pieces, NonEmptyPiece)
\* .map(k => k.trim())
mapTrim(pieces) == [i \in 1..Len(pieces) |-> trim(pieces[i])]

\* sections[k]?. : whether the optional chain has something to work on
hasSection(sections, k) == Len(sections) > k
\* sections[k].replace(NAME, '').trim()
sectionText(sections, k) == trim(replaceFirst(sections[k + 1], SectionNames[k]))

MkPackage(titles, script, brollKeywords, imageConcepts, editingGuide) ==
    [titles |-> titles, script |-> script, brollKeywords |-> brollKeywords,
     imageConcepts |-> imageConcepts, editingGuide |-> editingGuide]

\* lines 148-164: "Parse the structured response"
parsePackage(generatedText) ==
    LET sections == split(generatedText, "###")
    IN  MkPackage(
            IF hasSection(sections, 1)
            THEN filterBoolean(split(sectionText(sections, 1), "\n")) ELSE <<>>,
            IF hasSection(sections, 2) THEN sectionText(sections, 2) ELSE <<>>,
            IF hasSection(sections, 3)
            THEN mapTrim(split(sectionText(sections, 3), ",")) ELSE <<>>,
            IF hasSection(sections, 4)
            THEN mapTrim(split(sectionText(sections, 4), ",")) ELSE <<>>,
            IF hasSection(sections, 5) THEN sectionText(sections, 5) ELSE <<>>)

\* lines 167-218: "Fallback mock data"; every literal is one atom, and the
\* script carries the topic twice
fallbackPackage(topic) ==
    MkPackage(
        << <<"The Future of AI: What You Need to Know">>,
           <<"Breaking Down the Latest Tech Revolution">>,
           <<"How AI is Changing Everything">>,
           <<"The Technology That Will Define Tomorrow">>,
           <<"Understanding the AI Revolution">> >>,
        <<"Welcome to TheTechLounge ... diving deep into ">> \o topic
            \o <<" ... Let's start with the basics. ">> \o topic
            \o <<" represents a convergence ... see you in the next video.">>,
        << <<"abstract data visualization">>,
           <<"close up of computer motherboard">>,
           <<"person looking thoughtfully at screen">>,
           <<"futuristic city skyline at night">>,
           <<"hands typing on keyboard">>,
           <<"server room with blinking lights">>,
           <<"digital network connections">>,
           <<"artificial intelligence concept">>,
           <<"technology innovation lab">>,
           <<"modern office workspace">> >>,
        << <<"A glowing blue abstract neural network ...">>,
           <<"A massive library of floating books ...">>,
           <<"A robot hand and a human hand about to touch ...">>,
           <<"A single illuminated data stream ...">>,
           <<"A futuristic cityscape with holographic data ...">> >>,
        <<"[00:00] - [Intro Music Fades In] ==> VISUAL: Show channel logo animation. ...">>)

EmptyPackage == MkPackage(<<>>, <<>>, <<>>, <<>>, <<>>)

\* the outcome of the fetch in generateWithGemini:
\*   kind "networkError"  fetch rejects
\*   kind "httpError"     !response.ok, 'Gemini API request failed' is thrown
\*   kind "badBody"       no JSON, or no candidates[0].content.parts[0].text
\*   kind "ok"            text is the generated text
generateWithGeminiRethrows(topic, outcome) ==
    IF outcome.kind = "ok"
    THEN [threw |-> FALSE, value |-> parsePackage(outcome.text)]
    ELSE [threw |-> TRUE, value |-> EmptyPackage]
\* lines 124-219: the try block and its catch
generateWithGemini(topic, outcome) ==
    IF outcome.kind = "ok"
    THEN [threw |-> FALSE, value |-> parsePackage(outcome.text)]
    ELSE [threw |-> FALSE, value |-> fallbackPackage(topic)]

\* ------------------------------------------------------------------------
\* generateContent/route.ts : the later stages
\* ------------------------------------------------------------------------
\* Buffer.from('mock-audio-data')
generateVoiceover(script, voice) == "mock-audio-data"
\* keywords.slice(0, 5).map(() => Buffer.from('mock-video-data'))
downloadBrollVideos(keywords) == [i \in 1..Len(slice0(keywords, 5)) |-> "mock-video-data"]
\* concepts.slice(0, 5).map(() => Buffer.from('mock-image-data'))
generateAIImages(concepts) == [i \in 1..Len(slice0(concepts, 5)) |-> "mock-image-data"]

\* `asset_${index + 1}.${index < 5 ? 'mp4' : 'png'}` with index = i - 1
zipEntry(asset, i) ==
    [name |-> i, ext |-> IF i - 1 < 5 THEN "mp4" ELSE "png", data |-> asset]

\* the promise of createVisualsZip: resolved on 'end', rejected on 'error'
createVisualsZip(assets, archiveFails) ==
    IF archiveFails
    THEN [threw |-> TRUE, value |-> <<>>]
    ELSE [threw |-> FALSE, value |-> [i \in 1..Len(assets) |-> zipEntry(assets[i], i)]]

\* the upload without the catch block of lines 274-278
uploadToStorageNoPlaceholder(filename, uploadOk) ==
    IF uploadOk THEN [host |-> "public", file |-> filename] ELSE [host |-> "", file |-> ""]
\* uploadToStorage: the public URL, or the mock URL from the catch block
uploadToStorage(filename, uploadOk) ==
    IF uploadOk THEN [host |-> "public", file |-> filename]
    ELSE [host |-> "mock-storage.com", file |-> filename]

NoUrl == [host |-> "", file |-> ""]
NoUrls == [script |-> NoUrl, voiceover |-> NoUrl, visuals |-> NoUrl]

\* the answers of the identity lookup and of the credential lookup, and
\* whether each upload made so far was stored
NoLookup == [user |-> "none", keys |-> "none", uploads |-> <<>>]

NoPipeResponse ==
    [status |-> 0, error |-> "", titles |-> <<>>, script |-> <<>>, editingGuide |-> <<>>,
     visualAssets |-> <<>>, downloadUrls |-> NoUrls]

pipeError(status, message) == [NoPipeResponse EXCEPT !.status = status, !.error = message]

\* lines 56-66: the result object
pipeSuccess(pkg, urls) ==
    [status |-> 200, error |-> "", titles |-> pkg.titles, script |-> pkg.script,
     editingGuide |-> pkg.editingGuide,
     visualAssets |-> pkg.brollKeywords \o pkg.imageConcepts,
     downloadUrls |-> urls]

\* ------------------------------------------------------------------------
\* gatherAssets/route.ts : the four source adapters and the two gatherers
\* ------------------------------------------------------------------------
\* in the order of the sources arrays of gatherImages and gatherVideos
ImageSources == <<"PexelsImages", "UnsplashImages", "PixabayImages">>
VideoSources == <<"PexelsVideos">>
AssetAdapterSet == Range(ImageSources) \cup Range(VideoSources)
AssetKeys == {"PEXELS_API_KEY", "UNSPLASH_ACCESS_KEY", "PIXABAY_API_KEY"}

\* process.env.X read by each adapter
assetKeyOf(a) ==
    IF a = "UnsplashImages" THEN "UNSPLASH_ACCESS_KEY"
    ELSE IF a = "PixabayImages" THEN "PIXABAY_API_KEY"
    ELSE "PEXELS_API_KEY"

\* record i of adapter a becomes the asset with id <<a, i>>
toAssets(a, raw) ==
    [i \in 1..Len(raw) |-> MkImage(<<a, i>>, raw[i].hasUrl, raw[i].downloadUrl)]

\* every asset adapter: console.log(... 'not configured, skipping'); return []
assetAdapterWithoutKey(a) == Fulfilled(<<>>)

\* the adapter after its fetch: kinds as for the news adapters
assetAdapterOnResponse(a, resp) ==
    IF resp.kind # "ok" THEN Rejected
    ELSE Fulfilled(toAssets(a, IF resp.hasList THEN resp.list ELSE <<>>))

\* gatherImages, lines 171-173: dedup, then slice(0, count); a throw of
\* removeDuplicateImages rejects the promise of gatherImages
finishImages(allImages, count) ==
    LET deduped == removeDuplicateImages(allImages)
    IN  IF deduped.threw THEN Rejected
        ELSE Fulfilled(slice0(deduped.value, count))

\* gatherVideos, line 193
finishVideos(allVideos, count) == Fulfilled(slice0(allVideos, count))

NoAssetResponse ==
    [status |-> 0, success |-> FALSE, error |-> "", totalImages |-> 0, totalVideos |-> 0,
     images |-> <<>>, videos |-> <<>>, details |-> ""]

assetError(status, error, details) ==
    [NoAssetResponse EXCEPT !.status = status, !.error = error, !.details = details]

\* POST, lines 125-140
assetRespond(imageResults, videoResults) ==
    LET images == IF imageResults.status = "fulfilled" THEN imageResults.value ELSE <<>>
        videos == IF videoResults.status = "fulfilled" THEN videoResults.value ELSE <<>>
    IN  [status |-> 200, success |-> TRUE, error |-> "",
         totalImages |-> Len(images), totalVideos |-> Len(videos),
         images |-> images, videos |-> videos, details |-> ""]

\* ------------------------------------------------------------------------
\* testConnection/route.ts : the credential test endpoint (lines 1-145)
\* ------------------------------------------------------------------------
\* the models of testGeminiConnection in order of preference
modelsToTry == <<"gemini-2.0-flash-exp", "gemini-1.5-pro", "gemini-1.5-flash", "gemini-pro">>

\* The outcome of one probe: fetch rejects (kind "network"), or a response
\* with a status arrives (kind "http"); its body holds candidates, holds
\* none, or cannot be read (response.json() / response.text() rejects).
NetworkFailure == [kind |-> "network", status |-> 0, body |-> "none"]
HttpAnswer(status, body) == [kind |-> "http", status |-> status, body |-> body]

\* response.ok
responseOk(status) == status \in 200..299

\* a loop without the return of line 78
geminiProbeNeverReturns(o) == FALSE
\* lines 72-79: the probe that ends the loop with success
geminiProbeSucceeds(o) ==
    o.kind = "http" /\ responseOk(o.status) /\ o.body = "candidates"

\* what lands in the catch block of lines 97-102
geminiProbeThrows(o) == o.kind = "network" \/ o.body = "unreadable"

\* only the else branch of line 93
geminiStatusErrorGeneric(status) == "API error: " \o ToString(status)
\* lines 86-94
geminiStatusError(status) ==
    IF status = 400 THEN "Invalid API key or request format"
    ELSE IF status = 403 THEN "API key does not have permission or quota exceeded"
    ELSE IF status = 404 THEN "Model not available for this API key"
    ELSE "API error: " \o ToString(status)

\* lastError written by the probe of every model, not only the first
geminiLastErrorOfAnyModel(lastError, model, o) ==
    IF geminiProbeThrows(o) THEN "Network error or invalid API key"
    ELSE IF ~responseOk(o.status) THEN geminiStatusError(o.status)
    ELSE lastError
\* lastError after the probe of one model: only the first model writes it
geminiLastError(lastError, model, o) ==
    IF model # modelsToTry[1] THEN lastError
    ELSE IF geminiProbeThrows(o) THEN "Network error or invalid API key"
    ELSE IF ~responseOk(o.status) THEN geminiStatusError(o.status)
    ELSE lastError

\* the return of lines 105-109 without the default message
geminiGiveUpWithoutDefault(lastError) == [success |-> FALSE, error |-> lastError]
\* lines 105-109
geminiGiveUp(lastError) ==
    [success |-> FALSE,
     error |-> IF lastError # "" THEN lastError
               ELSE "No compatible Gemini models available for this API key"]

\* the test without the 503 clause of line 125
testHuggingFaceConnectionOkOnly(o) == o.kind = "http" /\ responseOk(o.status)
\* lines 112-130; the body is never read
testHuggingFaceConnection(o) ==
    o.kind = "http" /\ (responseOk(o.status) \/ o.status = 503)

\* lines 132-145
testPexelsConnection(o) == o.kind = "http" /\ responseOk(o.status)

KnownServices == {"gemini", "huggingface", "pexels"}

NoTestResponse == [sent |-> FALSE, success |-> FALSE, error |-> ""]
\* NextResponse.json({ success, error })
testRespond(success, error) == [sent |-> TRUE, success |-> success, error |-> error]

\* ------------------------------------------------------------------------
\* Each specification below runs one part of the program; the variables of
\* the other parts rest in these idle values.
\* ------------------------------------------------------------------------
SimIdle ==
    /\ simPc = "off"
    /\ str1 = <<>>
    /\ str2 = <<>>
    /\ simFwd = NoRatio
    /\ simRev = NoRatio

NoDedupOut == [threw |-> FALSE, value |-> <<>>]

DedupIdle ==
    /\ dedupPc = "off"
    /\ dedupIn = <<>>
    /\ dedupOut = NoDedupOut

ImgIdle ==
    /\ imgPc = "off"
    /\ imgIn = <<>>
    /\ imgOut = NoDedupOut

NewsIdle ==
    /\ nPc = "off"
    /\ nReq = "valid"
    /\ nEnv = [a \in NewsAdapterSet |-> FALSE]
    /\ nTask = [a \in NewsAdapterSet |-> NotStarted]
    /\ nOrder = <<>>
    /\ nCalls = [a \in NewsAdapterSet |-> 0]
    /\ nMerged = <<>>
    /\ nResp = NoResponse

PipeIdle ==
    /\ pPc = "off"
    /\ pReq = [json |-> "ok", auth |-> FALSE, topic |-> <<>>]
    /\ pGemini = [kind |-> "none", text |-> <<>>]
    /\ pPackage = EmptyPackage
    /\ pVoice = ""
    /\ pVideos = <<>>
    /\ pImages = <<>>
    /\ pZip = <<>>
    /\ pUrls = NoUrls
    /\ pResp = NoPipeResponse
    /\ pLog = <<>>
    /\ pLookup = NoLookup

AssetIdle ==
    /\ aPc = "off"
    /\ aReq = [json |-> "ok", keywords |-> "absent", imageCount |-> 10, videoCount |-> 5]
    /\ aEnv = [k \in AssetKeys |-> FALSE]
    /\ aSrc = [a \in AssetAdapterSet |-> NotStarted]
    /\ aCalls = [a \in AssetAdapterSet |-> 0]
    /\ aImg = [next |-> 1, all |-> <<>>, task |-> NotStarted]
    /\ aVid = [next |-> 1, all |-> <<>>, task |-> NotStarted]
    /\ aResp = NoAssetResponse

TestIdle ==
    /\ tPc = "off"
    /\ tReq = [json |-> "ok", service |-> "other", apiKey |-> ""]
    /\ tProbes = <<>>
    /\ tLastError = ""
    /\ tResp = NoTestResponse

\* what a specification leaves at rest, and the frame of its actions
SimRest ==
    DedupIdle /\ ImgIdle /\ NewsIdle /\ PipeIdle /\ AssetIdle /\ TestIdle
SimFrame ==
    UNCHANGED <<dedupVars, imgVars, newsVars, pipeVars, assetVars, testVars>>
DedupRest ==
    SimIdle /\ ImgIdle /\ NewsIdle /\ PipeIdle /\ AssetIdle /\ TestIdle
DedupFrame ==
    UNCHANGED <<simVars, imgVars, newsVars, pipeVars, assetVars, testVars>>
ImgRest ==
    SimIdle /\ DedupIdle /\ NewsIdle /\ PipeIdle /\ AssetIdle /\ TestIdle
ImgFrame ==
    UNCHANGED <<simVars, dedupVars, newsVars, pipeVars, assetVars, testVars>>
NewsRest ==
    SimIdle /\ DedupIdle /\ ImgIdle /\ PipeIdle /\ AssetIdle /\ TestIdle
NewsFrame ==
    UNCHANGED <<simVars, dedupVars, imgVars, pipeVars, assetVars, testVars>>
PipeRest ==
    SimIdle /\ DedupIdle /\ ImgIdle /\ NewsIdle /\ AssetIdle /\ TestIdle
PipeFrame ==
    UNCHANGED <<simVars, dedupVars, imgVars, newsVars, assetVars, testVars>>
AssetRest ==
    SimIdle /\ DedupIdle /\ ImgIdle /\ NewsIdle /\ PipeIdle /\ TestIdle
AssetFrame ==
    UNCHANGED <<simVars, dedupVars, imgVars, newsVars, pipeVars, testVars>>
TestRest ==
    SimIdle /\ DedupIdle /\ ImgIdle /\ NewsIdle /\ PipeIdle /\ AssetIdle
TestFrame ==
    UNCHANGED <<simVars, dedupVars, imgVars, newsVars, pipeVars, assetVars>>

\* ---- specification: calculateSimilarity on every pair of short strings --
SimAlphabet == {"a", "b", " "}
SimStrings == SeqsUpTo(SimAlphabet, MaxStrLen)

SimInit ==
    /\ simPc = "input"
    /\ str1 \in SimStrings
    /\ str2 \in SimStrings
    /\ simFwd = NoRatio
    /\ simRev = NoRatio
    /\ SimRest

SimApply ==
    /\ simPc = "input"
    /\ simFwd' = calculateSimilarity(str1, str2)
    /\ simRev' = calculateSimilarity(str2, str1)
    /\ simPc' = "done"
    /\ UNCHANGED <<str1, str2>>
    /\ SimFrame

SimNext == SimApply

SpecSim == SimInit /\ [][SimNext]_vars

\* C6: calculateSimilarity(a, b) equals calculateSimilarity(b, a) for all
\* pairs of strings a and b.
C6_Symmetric ==
    simPc = "done" => (simFwd.den > 0 /\ simRev.den > 0 /\ RatioEq(simFwd, simRev))

\* two different strings that share a word but not all words were compared
C6_Witness ==
    /\ simPc = "done"
    /\ str1 # str2
    /\ simFwd.num > 0
    /\ simFwd.num < simFwd.den
    /\ Cardinality(wordSet(str1)) # Cardinality(wordSet(str2))

\* ---- specification: removeDuplicateArticles on short lists of articles --
Words == LowerLetters

RECURSIVE JoinWords(_)
JoinWords(k) ==
    IF k = 0 THEN <<>>
    ELSE IF k = 1 THEN <<Words[1]>>
    ELSE JoinWords(k - 1) \o <<" ", Words[k]>>

\* titles of 0..NumWords words, and variants in case, punctuation and spacing
DedupTitles ==
    {JoinWords(k) : k \in 0..NumWords}
    \cup {<<"A">> \o Tail(JoinWords(NumWords)) \o <<"!">>,
          <<"a", " ", "-", " ", "b">>,
          <<" ", "a", " ">>,
          <<"b", ",", "a">>}

DedupArticles ==
    {[hasTitle |-> TRUE, title |-> t] : t \in DedupTitles}
    \cup {[hasTitle |-> FALSE, title |-> <<>>]}

DedupInputs ==
    {[i \in 1..Len(ts) |-> MkArticle(i, ts[i].hasTitle, ts[i].title, 0)] :
        ts \in SeqsUpTo(DedupArticles, MaxDedupLen)}

DedupInit ==
    /\ dedupPc = "input"
    /\ dedupIn \in DedupInputs
    /\ dedupOut = NoDedupOut
    /\ DedupRest

DedupApply ==
    /\ dedupPc = "input"
    /\ dedupOut' = removeDuplicateArticles(dedupIn)
    /\ dedupPc' = "done"
    /\ UNCHANGED dedupIn
    /\ DedupFrame

DedupNext == DedupApply

SpecDedup == DedupInit /\ [][DedupNext]_vars

TitleSimilarity(x, y) ==
    calculateSimilarity(normalizeTitle(x.title), normalizeTitle(y.title))

\* C4 as stated: every pair of distinct articles in the output of
\* removeDuplicateArticles has a normalized-title Jaccard similarity
\* strictly less than 0.8.
C4_StrictlyBelowThreshold ==
    (dedupPc = "done" /\ ~dedupOut.threw) =>
        \A i, j \in 1..Len(dedupOut.value) :
            i < j => LET r == TitleSimilarity(dedupOut.value[i], dedupOut.value[j])
                     IN  10 * r.num < 8 * r.den

\* C4 as amended: every pair of distinct articles in the output of
\* removeDuplicateArticles has a normalized-title Jaccard similarity that is
\* at most 0.8 (a pair at exactly 0.8 is kept).
C4_AtMostThreshold ==
    (dedupPc = "done" /\ ~dedupOut.threw) =>
        \A i, j \in 1..Len(dedupOut.value) :
            i < j => LET r == TitleSimilarity(dedupOut.value[i], dedupOut.value[j])
                     IN  10 * r.num <= 8 * r.den

\* a near-duplicate was dropped and two survivors sit exactly at 0.8
C4_Witness ==
    /\ dedupPc = "done"
    /\ ~dedupOut.threw
    /\ Len(dedupOut.value) < Len(dedupIn)
    /\ \E i, j \in 1..Len(dedupOut.value) :
          /\ i < j
          /\ LET r == TitleSimilarity(dedupOut.value[i], dedupOut.value[j])
             IN  10 * r.num = 8 * r.den
\* ---- specification: removeDuplicateImages on short lists of images ------
UrlAlphabet == {"u", "?"}
ImageUrls == SeqsUpTo(UrlAlphabet, MaxUrlLen)

ImageRecords ==
    {[hasUrl |-> TRUE, downloadUrl |-> u] : u \in ImageUrls}
    \cup {[hasUrl |-> FALSE, downloadUrl |-> <<>>]}

ImageInputs ==
    {[i \in 1..Len(us) |-> MkImage(i, us[i].hasUrl, us[i].downloadUrl)] :
        us \in SeqsUpTo(ImageRecords, MaxImages)}

ImgInit ==
    /\ imgPc = "input"
    /\ imgIn \in ImageInputs
    /\ imgOut = NoDedupOut
    /\ ImgRest

ImgApply ==
    /\ imgPc = "input"
    /\ imgOut' = removeDuplicateImages(imgIn)
    /\ imgPc' = "done"
    /\ UNCHANGED imgIn
    /\ ImgFrame

ImgNext == ImgApply

SpecImages == ImgInit /\ [][ImgNext]_vars

\* the URL up to, and without, its first '?'
WithoutQuery(url) ==
    LET q == {i \in 1..Len(url) : url[i] = "?"}
    IN  IF q = {} THEN url ELSE SubSeq(url, 1, MinOf(q) - 1)

\* C5: removeDuplicateImages returns a subsequence of its input in which no
\* two images share a downloadUrl once the query string is removed, and for
\* each such URL key the image kept is the first one with that key in input
\* order; images whose keys differ are never merged.
C5_FirstSeenExactDedup ==
    (imgPc = "done" /\ ~imgOut.threw) =>
        LET out == imgOut.value
        IN  /\ \A k \in 1..Len(out) :
                  /\ out[k].id \in 1..Len(imgIn)
                  /\ out[k] = imgIn[out[k].id]
            /\ \A k, l \in 1..Len(out) :
                  k < l => /\ out[k].id < out[l].id
                           /\ WithoutQuery(out[k].downloadUrl) # WithoutQuery(out[l].downloadUrl)
            /\ \A i \in 1..Len(imgIn) :
                  LET first == MinOf({j \in 1..Len(imgIn) :
                                  WithoutQuery(imgIn[j].downloadUrl) = WithoutQuery(imgIn[i].downloadUrl)})
                  IN  \E k \in 1..Len(out) : out[k].id = first

\* two URLs that differ only in their query string met, and so did two with
\* different keys: the later twin was dropped, the others were kept
C5_Witness ==
    /\ imgPc = "done"
    /\ ~imgOut.threw
    /\ Len(imgIn) = 3
    /\ Len(imgOut.value) = 2
    /\ \E i, j \in 1..Len(imgIn) :
          /\ i < j
          /\ imgIn[i].downloadUrl # imgIn[j].downloadUrl
          /\ WithoutQuery(imgIn[i].downloadUrl) = WithoutQuery(imgIn[j].downloadUrl)
          /\ WithoutQuery(imgIn[i].downloadUrl) # <<>>
\* ---- specification: one request to the news aggregation endpoint --------
\* "valid" parses; "badJson" makes request.json() reject; "badDays" carries
\* a days value that is no number, so toISOString throws a RangeError
RequestKinds == {"valid", "badJson", "badDays"}

RawRecord(hasTitle, title, publishedAt, hasSource) ==
    [hasTitle |-> hasTitle, title |-> title, publishedAt |-> publishedAt,
     hasSource |-> hasSource]

\* the records a provider may answer with: a title, a variant of it in case
\* and punctuation, a title at similarity 0.8 to it, an unrelated title with
\* a date that does not parse, and a record without title
BasePool ==
    {RawRecord(TRUE, JoinWords(NumWords), 1, TRUE),
     RawRecord(TRUE, <<"A">> \o Tail(JoinWords(NumWords)) \o <<"!">>, 2, TRUE),
     RawRecord(TRUE, JoinWords(NumWords - 1), 2, TRUE),
     RawRecord(TRUE, <<"z">>, InvalidDate, TRUE),
     RawRecord(FALSE, <<>>, 1, TRUE)}
\* a record without its source object, which only the GNews adapter reads
GNewsPool == BasePool \cup {RawRecord(TRUE, <<"z">>, 1, FALSE)}
RawPool(a) == IF a = "GNews" THEN GNewsPool ELSE BasePool

\* more records than the endpoint returns, each with a title of its own,
\* oldest first (NewsAPI alone sets no page size in its query)
LongList == [i \in 1..LongLen |-> RawRecord(TRUE, <<Words[i]>>, i, TRUE)]
\* the same answer with one date that does not parse
LongListBadDate == [LongList EXCEPT ![2].publishedAt = InvalidDate]

\* the answers adapter a may get when the model has room for `room` more
\* records
NewsLists(a, room) ==
    SeqsUpTo(RawPool(a), room)
    \cup (IF a = "NewsAPI" THEN {LongList, LongListBadDate} ELSE {})

NewsResponses(a, room) ==
    FailedResponses
    \cup {[kind |-> "ok", hasList |-> TRUE, list |-> l] : l \in NewsLists(a, room)}

ShortLen(list) == IF Len(list) > MaxNewsTotal THEN 0 ELSE Len(list)

RECURSIVE SumShort(_, _)
SumShort(tasks, k) ==
    IF k > Len(NewsAdapters) THEN 0
    ELSE ShortLen(tasks[NewsAdapters[k]].value) + SumShort(tasks, k + 1)

Settled(tasks) == \A a \in NewsAdapterSet : tasks[a].status \in {"fulfilled", "rejected"}

NewsInit ==
    /\ nPc = "request"
    /\ nReq \in RequestKinds
    /\ nEnv \in [NewsAdapterSet -> BOOLEAN]
    /\ nTask = [a \in NewsAdapterSet |-> NotStarted]
    /\ nOrder = <<>>
    /\ nCalls = [a \in NewsAdapterSet |-> 0]
    /\ nMerged = <<>>
    /\ nResp = NoResponse
    /\ NewsRest

\* POST, lines 56-65: the request does not parse, the catch block answers
NewsRejectRequest ==
    /\ nPc = "request"
    /\ nReq # "valid"
    /\ nResp' = newsErrorResponse(IF nReq = "badJson" THEN "Unexpected end of JSON input"
                                  ELSE "Invalid time value")
    /\ nPc' = "done"
    /\ UNCHANGED <<nReq, nEnv, nTask, nOrder, nCalls, nMerged>>
    /\ NewsFrame

\* POST, lines 68-72: the three adapters are called; each runs to its fetch,
\* or settles at once when it has no credential
NewsFanOut ==
    /\ nPc = "request"
    /\ nReq = "valid"
    /\ nTask' = [a \in NewsAdapterSet |-> IF nEnv[a] THEN Pending ELSE adapterWithoutKey(a)]
    /\ nCalls' = [a \in NewsAdapterSet |-> IF nEnv[a] THEN 1 ELSE 0]
    /\ nOrder' = SelectSeq(NewsAdapters, LAMBDA a : ~nEnv[a])
    /\ nPc' = "fanout"
    /\ UNCHANGED <<nReq, nEnv, nMerged, nResp>>
    /\ NewsFrame

\* the fetch of adapter a completes, in any order relative to the others
NewsSettle(a) ==
    /\ nPc = "fanout"
    /\ nTask[a].status = "pending"
    /\ \E resp \in NewsResponses(a, MaxNewsTotal - SumShort(nTask, 1)) :
          nTask' = [nTask EXCEPT ![a] = adapterOnResponse(a, resp)]
    /\ nOrder' = Append(nOrder, a)
    /\ UNCHANGED <<nPc, nReq, nEnv, nCalls, nMerged, nResp>>
    /\ NewsFrame

\* Promise.allSettled resolves once all three have settled; lines 74-108
NewsJoin ==
    /\ nPc = "fanout"
    /\ joinReady(nTask)
    /\ nMerged' = combineResults(nTask)
    /\ nResp' = newsRespond(nTask)
    /\ nPc' = "done"
    /\ UNCHANGED <<nReq, nEnv, nTask, nOrder, nCalls>>
    /\ NewsFrame

NewsNext ==
    \/ NewsRejectRequest
    \/ NewsFanOut
    \/ \E a \in NewsAdapterSet : NewsSettle(a)
    \/ NewsJoin

SpecNews == NewsInit /\ [][NewsNext]_vars
NoContribution(result) ==
    result.status = "rejected" \/ (result.status = "fulfilled" /\ result.value = <<>>)

\* C1: for every subset of the three adapters that rejects and every order
\* in which the three calls complete, the endpoint answers only after all
\* three have settled, answers success:true, and the merged list handed to
\* dedup holds every article of every adapter that fulfilled.
C1_SettleAllKeepsEveryResult ==
    (nPc = "done" /\ nReq = "valid") =>
        /\ \A a \in NewsAdapterSet : nTask[a].status \in {"fulfilled", "rejected"}
        /\ nResp.status = 200
        /\ nResp.success
        /\ \A a \in NewsAdapterSet :
              nTask[a].status = "fulfilled" =>
                  \A i \in 1..Len(nTask[a].value) :
                      \E k \in 1..Len(nMerged) : nMerged[k] = nTask[a].value[i]

\* C2: if every one of the three adapters rejects or returns an empty list
\* (also because its credential is absent), the response is success:true
\* with articles = [], totalResults = 0 and sourcesUsed = 0, never an error.
C2_TotalWipeoutIsSuccess ==
    (/\ nPc = "done"
     /\ nReq = "valid"
     /\ \A a \in NewsAdapterSet : NoContribution(nTask[a])) =>
        /\ nResp.status = 200
        /\ nResp.success
        /\ nResp.articles = <<>>
        /\ nResp.totalResults = 0
        /\ nResp.sourcesUsed = 0

\* a wipeout of all three kinds: a fetch that failed, a provider that
\* answered with no records, and an adapter without credential
C2_Witness ==
    /\ nPc = "done"
    /\ nResp.status = 200
    /\ nEnv["NewsAPI"] /\ nTask["NewsAPI"].status = "rejected"
    /\ nEnv["TheNewsAPI"] /\ nTask["TheNewsAPI"] = Fulfilled(<<>>)
    /\ ~nEnv["GNews"] /\ nTask["GNews"] = Fulfilled(<<>>)
    /\ nOrder = <<"GNews", "TheNewsAPI", "NewsAPI">>

\* C3: every success response of the news endpoint has at most 20 articles
\* and lists them by publishedAt descending: of two articles whose dates
\* parse, the one listed first is not the older one.
C3_AtMostTwentySortedDescending ==
    nResp.status = 200 =>
        /\ Len(nResp.articles) <= 20
        /\ \A i, j \in 1..Len(nResp.articles) :
              (/\ i < j
               /\ nResp.articles[i].publishedAt # InvalidDate
               /\ nResp.articles[j].publishedAt # InvalidDate)
              => nResp.articles[i].publishedAt >= nResp.articles[j].publishedAt

\* ---- specification: one request to the content pipeline endpoint --------
PipeTopics == {<<>>, <<"AI">>}
PipeRequests ==
    [json : {"ok", "bad"}, auth : BOOLEAN, topic : PipeTopics]

ItemSeparator(i) == IF i = 1 THEN "\n" ELSE IF i \in {3, 4} THEN "," ELSE " "

\* what may follow the i-th separator: nothing, text without the section
\* name, or the section as the prompt asks for it (name, line break, two
\* items); past the fifth section only the first two
SectionBodies(i) ==
    {<<>>, <<"x">>}
    \cup (IF i <= Len(SectionNames)
          THEN {<<SectionNames[i], "\n", "x", ItemSeparator(i), "x">>} ELSE {})

AllBodies == UNION {SectionBodies(i) : i \in 1..MaxSections}

RECURSIVE JoinSections(_, _)
JoinSections(bodies, k) ==
    IF k > Len(bodies) THEN <<>>
    ELSE <<"###">> \o bodies[k] \o JoinSections(bodies, k + 1)

\* generated texts: an optional preamble, then 0..MaxSections sections
GeminiTexts ==
    {pre \o JoinSections(bodies, 1) :
        pre \in {<<>>, <<"x">>},
        bodies \in {b \in SeqsUpTo(AllBodies, MaxSections) :
                        \A i \in 1..Len(b) : b[i] \in SectionBodies(i)}}

GeminiOutcomes ==
    {[kind |-> k, text |-> <<>>] : k \in {"networkError", "httpError", "badBody"}}
    \cup {[kind |-> "ok", text |-> t] : t \in GeminiTexts}

NoOutcome == [kind |-> "none", text |-> <<>>]

\* what supabase.auth.getUser and the user_api_keys query can do: answer
\* with the row, with an error, with neither, or reject
UserAnswers == {"user", "error", "noUser", "threw"}
KeysAnswers == {"keys", "error", "noKeys", "threw"}

PipeInit ==
    /\ pPc = "request"
    /\ pLookup = NoLookup
    /\ pReq \in PipeRequests
    /\ pGemini = NoOutcome
    /\ pPackage = EmptyPackage
    /\ pVoice = ""
    /\ pVideos = <<>>
    /\ pImages = <<>>
    /\ pZip = <<>>
    /\ pUrls = NoUrls
    /\ pResp = NoPipeResponse
    /\ pLog = <<>>
    /\ PipeRest

\* the handler ending without a response
PipeEndWithoutResponse(resp) ==
    /\ pResp' = pResp
    /\ pPc' = "done"
PipeEnd(resp) ==
    /\ pResp' = resp
    /\ pPc' = "done"

\* POST, lines 8-19: parse the body, read the authorization header, ask for
\* the user
PipeParse ==
    /\ pPc = "request"
    /\ IF pReq.json = "bad" THEN PipeEnd(pipeError(500, "Internal server error"))
       ELSE IF ~pReq.auth THEN PipeEnd(pipeError(401, "Unauthorized"))
       ELSE pPc' = "getUser" /\ UNCHANGED pResp
    /\ UNCHANGED <<pReq, pGemini, pPackage, pVoice, pVideos, pImages, pZip, pUrls, pLog>>
    /\ UNCHANGED pLookup
    /\ PipeFrame

\* POST, lines 17-29: the identity lookup answers; ask for the stored keys
PipeUser ==
    /\ pPc = "getUser"
    /\ \E answer \in UserAnswers :
          /\ pLookup' = [pLookup EXCEPT !.user = answer]
          /\ IF answer = "threw" THEN PipeEnd(pipeError(500, "Internal server error"))
             ELSE IF answer # "user" THEN PipeEnd(pipeError(401, "Unauthorized"))
             ELSE pPc' = "getKeys" /\ UNCHANGED pResp
    /\ UNCHANGED <<pReq, pGemini, pPackage, pVoice, pVideos, pImages, pZip, pUrls, pLog>>
    /\ PipeFrame

\* POST, lines 25-36: the credential lookup answers; the script stage starts
PipeKeys ==
    /\ pPc = "getKeys"
    /\ \E answer \in KeysAnswers :
          /\ pLookup' = [pLookup EXCEPT !.keys = answer]
          /\ IF answer = "threw"
             THEN PipeEnd(pipeError(500, "Internal server error")) /\ UNCHANGED pLog
             ELSE IF answer # "keys"
             THEN PipeEnd(pipeError(400, "API keys not configured")) /\ UNCHANGED pLog
             ELSE pPc' = "script" /\ pLog' = Append(pLog, "script") /\ UNCHANGED pResp
    /\ UNCHANGED <<pReq, pGemini, pPackage, pVoice, pVideos, pImages, pZip, pUrls>>
    /\ PipeFrame

\* Step 1, line 36: the text-generation call completes; the voice stage starts
PipeScript ==
    /\ pPc = "script"
    /\ \E outcome \in GeminiOutcomes :
          LET r == generateWithGemini(pReq.topic, outcome)
          IN  /\ pGemini' = outcome
              /\ IF r.threw
                 THEN /\ PipeEnd(pipeError(500, "Internal server error"))
                      /\ UNCHANGED <<pPackage, pLog>>
                 ELSE /\ pPackage' = r.value
                      /\ pPc' = "voice"
                      /\ pLog' = Append(pLog, "voice")
                      /\ UNCHANGED pResp
    /\ UNCHANGED <<pReq, pVoice, pVideos, pImages, pZip, pUrls>>
    /\ UNCHANGED pLookup
    /\ PipeFrame

\* the voice stage started a second time once it has finished
PipeVoiceRetried ==
    /\ pPc = "voice"
    /\ pVoice' = generateVoiceover(pPackage.script, "voice")
    /\ pPc' = "voice"
    /\ pLog' = Append(pLog, "voice")
    /\ UNCHANGED <<pReq, pGemini, pPackage, pVideos, pImages, pZip, pUrls, pResp>>
    /\ UNCHANGED pLookup
    /\ PipeFrame
\* Step 2, line 39
PipeVoice ==
    /\ pPc = "voice"
    /\ pVoice' = generateVoiceover(pPackage.script, "voice")
    /\ pPc' = "footage"
    /\ pLog' = Append(pLog, "footage")
    /\ UNCHANGED <<pReq, pGemini, pPackage, pVideos, pImages, pZip, pUrls, pResp>>
    /\ UNCHANGED pLookup
    /\ PipeFrame

\* Step 3, line 42
PipeFootage ==
    /\ pPc = "footage"
    /\ pVideos' = downloadBrollVideos(pPackage.brollKeywords)
    /\ pPc' = "image"
    /\ pLog' = Append(pLog, "image")
    /\ UNCHANGED <<pReq, pGemini, pPackage, pVoice, pImages, pZip, pUrls, pResp>>
    /\ UNCHANGED pLookup
    /\ PipeFrame

\* Step 4, line 45
PipeImage ==
    /\ pPc = "image"
    /\ pImages' = generateAIImages(pPackage.imageConcepts)
    /\ pPc' = "package"
    /\ pLog' = Append(pLog, "package")
    /\ UNCHANGED <<pReq, pGemini, pPackage, pVoice, pVideos, pZip, pUrls, pResp>>
    /\ UNCHANGED pLookup
    /\ PipeFrame

\* Step 5, line 48: the archive ends, or emits 'error' and the promise
\* rejects into the catch block of POST
PipePackage ==
    /\ pPc = "package"
    /\ \E archiveFails \in BOOLEAN :
          LET r == createVisualsZip(pVideos \o pImages, archiveFails)
          IN  IF r.threw
              THEN /\ PipeEnd(pipeError(500, "Internal server error"))
                   /\ UNCHANGED <<pZip, pLog>>
              ELSE /\ pZip' = r.value
                   /\ pPc' = "uploadScript"
                   /\ pLog' = Append(pLog, "publish")
                   /\ UNCHANGED pResp
    /\ UNCHANGED <<pReq, pGemini, pPackage, pVoice, pVideos, pImages, pUrls>>
    /\ UNCHANGED pLookup
    /\ PipeFrame

\* Step 6, lines 51-53: the three uploads, one after the other
PipeUploadScript ==
    /\ pPc = "uploadScript"
    /\ \E uploadOk \in BOOLEAN :
          /\ pUrls' = [pUrls EXCEPT !.script = uploadToStorage("script.txt", uploadOk)]
          /\ pLookup' = [pLookup EXCEPT !.uploads = Append(@, uploadOk)]
    /\ pPc' = "uploadVoiceover"
    /\ UNCHANGED <<pReq, pGemini, pPackage, pVoice, pVideos, pImages, pZip, pResp, pLog>>
    /\ PipeFrame

PipeUploadVoiceover ==
    /\ pPc = "uploadVoiceover"
    /\ \E uploadOk \in BOOLEAN :
          /\ pUrls' = [pUrls EXCEPT !.voiceover = uploadToStorage("voiceover.mp3", uploadOk)]
          /\ pLookup' = [pLookup EXCEPT !.uploads = Append(@, uploadOk)]
    /\ pPc' = "uploadVisuals"
    /\ UNCHANGED <<pReq, pGemini, pPackage, pVoice, pVideos, pImages, pZip, pResp, pLog>>
    /\ PipeFrame

\* the last upload, then the response of lines 56-66
PipeUploadVisuals ==
    /\ pPc = "uploadVisuals"
    /\ \E uploadOk \in BOOLEAN :
          LET urls == [pUrls EXCEPT !.visuals = uploadToStorage("visuals.zip", uploadOk)]
          IN  /\ pUrls' = urls
              /\ pLookup' = [pLookup EXCEPT !.uploads = Append(@, uploadOk)]
              /\ PipeEnd(pipeSuccess(pPackage, urls))
    /\ UNCHANGED <<pReq, pGemini, pPackage, pVoice, pVideos, pImages, pZip, pLog>>
    /\ PipeFrame

PipeNext ==
    \/ PipeParse
    \/ PipeUser
    \/ PipeKeys
    \/ PipeScript
    \/ PipeVoice
    \/ PipeFootage
    \/ PipeImage
    \/ PipePackage
    \/ PipeUploadScript
    \/ PipeUploadVoiceover
    \/ PipeUploadVisuals

SpecPipeline == PipeInit /\ [][PipeNext]_vars
Started(stage) == \E i \in 1..Len(pLog) : pLog[i] = stage

\* C8: when the text-generation call throws or answers with a non-2xx
\* status, generateWithGemini does not propagate the exception (the next
\* stage starts) and returns the fixed fallback package, whose titles,
\* script, brollKeywords, imageConcepts and editingGuide are all non-empty.
C8_FallbackOnFailedCall ==
    pGemini.kind \in {"networkError", "httpError"} =>
        /\ Started("voice")
        /\ pPackage = fallbackPackage(pReq.topic)
        /\ pPackage.titles # <<>>
        /\ pPackage.script # <<>>
        /\ pPackage.brollKeywords # <<>>
        /\ pPackage.imageConcepts # <<>>
        /\ pPackage.editingGuide # <<>>

\* the call answered with a non-2xx status for a request with an empty
\* topic, and the pipeline went on to its last stage
C8_Witness ==
    /\ pGemini.kind = "httpError"
    /\ pReq.topic = <<>>
    /\ Started("publish")

SeparatorCount(text) == Cardinality({i \in 1..Len(text) : text[i] = "###"})

\* C9: when the provider answers 2xx with a text that lacks the five
\* '###'-delimited sections (no separator, or fewer than five sections), the
\* script stage returns the fixed fallback package.
C9_FallbackOnMalformedText ==
    (pGemini.kind = "ok" /\ SeparatorCount(pGemini.text) < 5) =>
        pPackage = fallbackPackage(pReq.topic)

\* C10: once the request is parsed, authenticated and its credentials are
\* found, no failure inside a stage produces the error response: the
\* pipeline ends in the success response, and the 500 response comes only
\* from request parsing.
C10_StagesNeverFailThePipeline ==
    /\ (pPc = "done" /\ Started("script")) => pResp.status = 200
    /\ pResp.status = 500 => pReq.json = "bad"
\* ---- specification: one request to the asset aggregation endpoint -------
\* keywords absent (the default []), an empty array, or some keywords;
\* imageCount and videoCount as the caller sends them (10 and 5 by default)
AssetRequests ==
    [json : {"ok", "bad"}, keywords : {"absent", "empty", "some"},
     imageCount : {-1, 1, 10}, videoCount : {0, 5}]

\* records the providers can return: two URLs that differ only in their
\* query string, a third URL, and a record without the URL field
AssetUrl(u) == [hasUrl |-> TRUE, downloadUrl |-> u]
AssetPool(a) ==
    IF a = "PexelsImages" THEN {AssetUrl(<<"u">>), AssetUrl(<<"v">>), [hasUrl |-> FALSE, downloadUrl |-> <<>>]}
    ELSE IF a = "UnsplashImages" THEN {AssetUrl(<<"u", "?", "w">>), AssetUrl(<<"v">>)}
    ELSE {AssetUrl(<<"u">>)}

AssetResponses(a, room) ==
    FailedResponses
    \cup {[kind |-> "ok", hasList |-> TRUE, list |-> l] : l \in SeqsUpTo(AssetPool(a), room)}

RECURSIVE SumLens(_, _, _)
SumLens(tasks, names, k) ==
    IF k > Len(names) THEN 0
    ELSE Len(tasks[names[k]].value) + SumLens(tasks, names, k + 1)

AssetInit ==
    /\ aPc = "request"
    /\ aReq \in AssetRequests
    /\ aEnv \in [AssetKeys -> BOOLEAN]
    /\ aSrc = [a \in AssetAdapterSet |-> NotStarted]
    /\ aCalls = [a \in AssetAdapterSet |-> 0]
    /\ aImg = [next |-> 1, all |-> <<>>, task |-> NotStarted]
    /\ aVid = [next |-> 1, all |-> <<>>, task |-> NotStarted]
    /\ aResp = NoAssetResponse
    /\ AssetRest

\* POST without the keywords check of lines 112-117
AssetPostUnchecked ==
    /\ aPc = "request"
    /\ IF aReq.json = "bad"
       THEN /\ aResp' = assetError(500, "Failed to gather visual assets", "Unexpected end of JSON input")
            /\ aPc' = "done"
            /\ UNCHANGED <<aImg, aVid>>
       ELSE /\ aPc' = "gather"
            /\ aImg' = [aImg EXCEPT !.task = Pending]
            /\ aVid' = [aVid EXCEPT !.task = Pending]
            /\ UNCHANGED aResp
    /\ UNCHANGED <<aReq, aEnv, aSrc, aCalls>>
    /\ AssetFrame
\* POST, lines 104-123: parse, check keywords, start both gatherers
AssetPost ==
    /\ aPc = "request"
    /\ IF aReq.json = "bad"
       THEN /\ aResp' = assetError(500, "Failed to gather visual assets", "Unexpected end of JSON input")
            /\ aPc' = "done"
            /\ UNCHANGED <<aImg, aVid>>
       ELSE IF aReq.keywords # "some"
       THEN /\ aResp' = assetError(400, "Keywords are required", "")
            /\ aPc' = "done"
            /\ UNCHANGED <<aImg, aVid>>
       ELSE /\ aPc' = "gather"
            /\ aImg' = [aImg EXCEPT !.task = Pending]
            /\ aVid' = [aVid EXCEPT !.task = Pending]
            /\ UNCHANGED aResp
    /\ UNCHANGED <<aReq, aEnv, aSrc, aCalls>>
    /\ AssetFrame

\* one adapter call: without its key it returns [] at once, otherwise it
\* fetches and the outcome of the fetch decides
CallAdapter(a, room) ==
    IF ~aEnv[assetKeyOf(a)]
    THEN /\ aSrc' = [aSrc EXCEPT ![a] = assetAdapterWithoutKey(a)]
         /\ UNCHANGED aCalls
    ELSE /\ \E resp \in AssetResponses(a, room) :
               aSrc' = [aSrc EXCEPT ![a] = assetAdapterOnResponse(a, resp)]
         /\ aCalls' = [aCalls EXCEPT ![a] = @ + 1]

\* gatherImages with the source calls outside try/catch: the first rejected
\* source rejects the whole gathering
AssetImageSourceUncaught ==
    /\ aPc = "gather"
    /\ aImg.task = Pending
    /\ aImg.next <= Len(ImageSources)
    /\ LET a == ImageSources[aImg.next]
       IN  /\ CallAdapter(a, MaxAssetTotal - SumLens(aSrc, ImageSources, 1))
           /\ aImg' = IF aSrc'[a].status = "fulfilled"
                      THEN [aImg EXCEPT !.next = @ + 1, !.all = @ \o aSrc'[a].value]
                      ELSE [aImg EXCEPT !.next = Len(ImageSources) + 1, !.task = Rejected]
    /\ UNCHANGED <<aPc, aReq, aEnv, aVid, aResp>>
    /\ AssetFrame
\* gatherImages, lines 162-169: the next image source, inside try/catch
AssetImageSource ==
    /\ aPc = "gather"
    /\ aImg.task = Pending
    /\ aImg.next <= Len(ImageSources)
    /\ LET a == ImageSources[aImg.next]
       IN  /\ CallAdapter(a, MaxAssetTotal - SumLens(aSrc, ImageSources, 1))
           /\ aImg' = [aImg EXCEPT !.next = @ + 1,
                                   !.all = IF aSrc'[a].status = "fulfilled"
                                           THEN @ \o aSrc'[a].value ELSE @]
    /\ UNCHANGED <<aPc, aReq, aEnv, aVid, aResp>>
    /\ AssetFrame

\* gatherImages, lines 171-173
AssetImagesDone ==
    /\ aPc = "gather"
    /\ aImg.task = Pending
    /\ aImg.next > Len(ImageSources)
    /\ aImg' = [aImg EXCEPT !.task = finishImages(aImg.all, aReq.imageCount)]
    /\ UNCHANGED <<aPc, aReq, aEnv, aSrc, aCalls, aVid, aResp>>
    /\ AssetFrame

\* gatherVideos, lines 184-191
AssetVideoSource ==
    /\ aPc = "gather"
    /\ aVid.task = Pending
    /\ aVid.next <= Len(VideoSources)
    /\ LET a == VideoSources[aVid.next]
       IN  /\ CallAdapter(a, 1)
           /\ aVid' = [aVid EXCEPT !.next = @ + 1,
                                   !.all = IF aSrc'[a].status = "fulfilled"
                                           THEN @ \o aSrc'[a].value ELSE @]
    /\ UNCHANGED <<aPc, aReq, aEnv, aImg, aResp>>
    /\ AssetFrame

\* gatherVideos, line 193
AssetVideosDone ==
    /\ aPc = "gather"
    /\ aVid.task = Pending
    /\ aVid.next > Len(VideoSources)
    /\ aVid' = [aVid EXCEPT !.task = finishVideos(aVid.all, aReq.videoCount)]
    /\ UNCHANGED <<aPc, aReq, aEnv, aSrc, aCalls, aImg, aResp>>
    /\ AssetFrame

\* POST, lines 120-140: both gatherers have settled
AssetJoin ==
    /\ aPc = "gather"
    /\ aImg.task.status \in {"fulfilled", "rejected"}
    /\ aVid.task.status \in {"fulfilled", "rejected"}
    /\ aResp' = assetRespond(aImg.task, aVid.task)
    /\ aPc' = "done"
    /\ UNCHANGED <<aReq, aEnv, aSrc, aCalls, aImg, aVid>>
    /\ AssetFrame

AssetNext ==
    \/ AssetPost
    \/ AssetImageSource
    \/ AssetImagesDone
    \/ AssetVideoSource
    \/ AssetVideosDone
    \/ AssetJoin

SpecAssets == AssetInit /\ [][AssetNext]_vars
\* C7: each of the seven source adapters, called while its provider
\* credential is absent from the environment, returns an empty list: it
\* does not throw and it makes no outbound call.
C7_NoCredentialMeansEmptyAndSilent ==
    /\ \A a \in NewsAdapterSet :
          (nTask[a].status # "notStarted" /\ ~nEnv[a]) =>
              nTask[a] = Fulfilled(<<>>) /\ nCalls[a] = 0
    /\ \A a \in AssetAdapterSet :
          (aSrc[a].status # "notStarted" /\ ~aEnv[assetKeyOf(a)]) =>
              aSrc[a] = Fulfilled(<<>>) /\ aCalls[a] = 0

\* ------------------------------------------------------------------------
\* The pipeline endpoint: order of the stages and the early answers
\* ------------------------------------------------------------------------
\* POST, steps 1 to 6
StageOrder == <<"script", "voice", "footage", "image", "package", "publish">>

\* the stage whose await is pending at a position of POST
StageOf(pc) ==
    IF pc \in {"uploadScript", "uploadVoiceover", "uploadVisuals"} THEN "publish" ELSE pc

StagePcs ==
    {"script", "voice", "footage", "image", "package",
     "uploadScript", "uploadVoiceover", "uploadVisuals"}

\* C11: the stages start in the order script, voice, footage, image,
\* package, publish; each is started at most once; the only stage in
\* progress is the one started last, so a stage starts only after the one
\* before it has finished and no two are in progress together.
C11_StagesStrictlySequential ==
    /\ Len(pLog) <= Len(StageOrder)
    /\ \A i \in 1..Len(pLog) : pLog[i] = StageOrder[i]
    /\ pPc \in StagePcs => (pLog # <<>> /\ StageOf(pPc) = pLog[Len(pLog)])
    /\ pPc \notin StagePcs \cup {"done"} => pLog = <<>>

\* all six stages have run and the success response was sent
C11_Witness ==
    /\ pPc = "done"
    /\ pLog = StageOrder
    /\ pResp.status = 200

\* no text-generation call, no archive and no upload has happened
NoStageStarted ==
    /\ pLog = <<>>
    /\ pGemini = NoOutcome
    /\ pZip = <<>>
    /\ pUrls = NoUrls

\* C12: the pipeline endpoint answers 401 when the authorization header is
\* missing or the identity lookup answers with an error or without a user,
\* and 400 when the stored credentials are missing or their lookup answers
\* with an error; in each of these cases no stage has been started.
C12_EarlyAnswersBeforeAnyStage ==
    /\ (pPc = "done" /\ ~pReq.auth) =>
          pResp.status = 401 /\ NoStageStarted
    /\ pLookup.user \in {"error", "noUser"} =>
          pResp.status = 401 /\ NoStageStarted
    /\ pLookup.keys \in {"error", "noKeys"} =>
          pResp.status = 400 /\ NoStageStarted

\* ------------------------------------------------------------------------
\* The asset endpoint: the keywords check
\* ------------------------------------------------------------------------
\* C13: for a body whose keywords field is absent or an empty list, the
\* asset endpoint answers 400 with success:false, and no image or video
\* adapter has been invoked and no outbound call has been made.
C13_NoKeywordsIsRejectedUntouched ==
    (aPc = "done" /\ aReq.json = "ok" /\ aReq.keywords \in {"absent", "empty"}) =>
        /\ aResp.status = 400
        /\ ~aResp.success
        /\ \A a \in AssetAdapterSet : aSrc[a] = NotStarted /\ aCalls[a] = 0
        /\ aImg.task = NotStarted
        /\ aVid.task = NotStarted

\* an empty keywords list was refused although every provider key is set
C13_Witness ==
    /\ aPc = "done"
    /\ aReq.json = "ok"
    /\ aReq.keywords = "empty"
    /\ aResp.status = 400
    /\ \A k \in AssetKeys : aEnv[k]

\* ------------------------------------------------------------------------
\* The pipeline endpoint: the publish stage and the package stage
\* ------------------------------------------------------------------------
\* the three uploads of lines 51-53 in their order
UploadFields == <<"script", "voiceover", "visuals">>
UploadFiles == <<"script.txt", "voiceover.mp3", "visuals.zip">>

\* C14: whatever combination of the three uploads fails, each upload gives
\* a URL of its own, the public URL when it was stored and the placeholder
\* URL built from its filename when it failed; a failed upload does not
\* stop the later ones, and the pipeline answers with the success response
\* carrying the three downloadUrls.
C14_EveryUploadYieldsAUrl ==
    /\ \A i \in 1..Len(pLookup.uploads) :
          pUrls[UploadFields[i]] =
              [host |-> IF pLookup.uploads[i] THEN "public" ELSE "mock-storage.com",
               file |-> UploadFiles[i]]
    /\ (pPc = "done" /\ Started("publish")) =>
          /\ Len(pLookup.uploads) = 3
          /\ pResp.status = 200
          /\ pResp.downloadUrls = pUrls

\* the first and the last upload failed, the second was stored
C14_Witness ==
    /\ pPc = "done"
    /\ pLookup.uploads = <<FALSE, TRUE, FALSE>>
    /\ pResp.status = 200

\* C15: in the package stage, with N video payloads and M image payloads,
\* the archive entries are asset_1 .. asset_(N+M) in input order, the first
\* N (the videos) with extension mp4 and the remaining M (the images) with
\* extension png.
C15_ExtensionFollowsPayloadKind ==
    Started("publish") =>
        /\ Len(pZip) = Len(pVideos) + Len(pImages)
        /\ \A i \in 1..Len(pZip) :
              /\ pZip[i].name = i
              /\ pZip[i].data = (pVideos \o pImages)[i]
              /\ pZip[i].ext = IF i <= Len(pVideos) THEN "mp4" ELSE "png"

\* ---- specification: one request to the credential test endpoint ---------
\* apiKey "" stands for a missing or empty key, service "other" for a
\* missing or unknown service
TestRequests ==
    [json : {"ok", "bad"}, service : KnownServices \cup {"other"}, apiKey : {"", "key"}]

ProbeStatuses == {200, 204, 400, 403, 404, 503}
ProbeOutcomes ==
    {NetworkFailure}
    \cup {HttpAnswer(s, b) : s \in ProbeStatuses, b \in {"plain", "unreadable"}}
    \cup {HttpAnswer(200, "candidates")}

TestInit ==
    /\ tPc = "request"
    /\ tReq \in TestRequests
    /\ tProbes = <<>>
    /\ tLastError = ""
    /\ tResp = NoTestResponse
    /\ TestRest

\* POST, lines 4-30: parse, check the key, pick the service
TestPost ==
    /\ tPc = "request"
    /\ IF tReq.json = "bad"
       THEN tResp' = testRespond(FALSE, "Connection test failed") /\ tPc' = "done"
       ELSE IF tReq.apiKey = ""
       THEN tResp' = testRespond(FALSE, "API key is required") /\ tPc' = "done"
       ELSE IF tReq.service \in KnownServices
       THEN tPc' = tReq.service /\ UNCHANGED tResp
       ELSE tResp' = testRespond(FALSE, "Unknown service") /\ tPc' = "done"
    /\ UNCHANGED <<tReq, tProbes, tLastError>>
    /\ TestFrame

\* testGeminiConnection, one turn of the loop of lines 50-103: the probe of
\* the next model answers; after a success, or after the last model, POST
\* responds (lines 16-19 and 32)
TestGeminiProbe ==
    /\ tPc = "gemini"
    /\ Len(tProbes) < Len(modelsToTry)
    /\ \E o \in ProbeOutcomes :
          LET model == modelsToTry[Len(tProbes) + 1]
              lastError == geminiLastError(tLastError, model, o)
              giveUp == geminiGiveUp(lastError)
          IN  /\ tProbes' = Append(tProbes, [target |-> model, outcome |-> o])
              /\ tLastError' = lastError
              /\ IF geminiProbeSucceeds(o)
                 THEN tResp' = testRespond(TRUE, "") /\ tPc' = "done"
                 ELSE IF Len(tProbes) + 1 = Len(modelsToTry)
                 THEN tResp' = testRespond(giveUp.success, giveUp.error) /\ tPc' = "done"
                 ELSE UNCHANGED <<tResp, tPc>>
    /\ UNCHANGED tReq
    /\ TestFrame

\* POST, lines 20-23 and 32, with testHuggingFaceConnection
TestHuggingFaceProbe ==
    /\ tPc = "huggingface"
    /\ \E o \in ProbeOutcomes :
          LET success == testHuggingFaceConnection(o)
          IN  /\ tProbes' = Append(tProbes, [target |-> "huggingface", outcome |-> o])
              /\ tResp' = testRespond(success,
                              IF ~success THEN "Failed to connect to Hugging Face API" ELSE "")
    /\ tPc' = "done"
    /\ UNCHANGED <<tReq, tLastError>>
    /\ TestFrame

\* POST, lines 24-27 and 32, with testPexelsConnection
TestPexelsProbe ==
    /\ tPc = "pexels"
    /\ \E o \in ProbeOutcomes :
          LET success == testPexelsConnection(o)
          IN  /\ tProbes' = Append(tProbes, [target |-> "pexels", outcome |-> o])
              /\ tResp' = testRespond(success,
                              IF ~success THEN "Failed to connect to Pexels API" ELSE "")
    /\ tPc' = "done"
    /\ UNCHANGED <<tReq, tLastError>>
    /\ TestFrame

TestNext ==
    \/ TestPost
    \/ TestGeminiProbe
    \/ TestHuggingFaceProbe
    \/ TestPexelsProbe

SpecTest == TestInit /\ [][TestNext]_vars

\* ------------------------------------------------------------------------
\* The credential test endpoint
\* ------------------------------------------------------------------------
\* every probe made was answered, in full, with this status
EveryProbeAnswered(status) ==
    /\ tProbes # <<>>
    /\ \A i \in 1..Len(tProbes) : tProbes[i].outcome = HttpAnswer(status, "plain")

\* C16: the credential test called with service "gemini" and a key for
\* which the provider answers 403 returns success:false with error "API key
\* does not have permission or quota exceeded"; a key answered with 400
\* gives "Invalid API key or request format" and one answered with 404
\* gives "Model not available for this API key".
C16_GeminiStatusMessages ==
    (tPc = "done" /\ tReq.service = "gemini") =>
        /\ EveryProbeAnswered(403) =>
              tResp = testRespond(FALSE, "API key does not have permission or quota exceeded")
        /\ EveryProbeAnswered(400) =>
              tResp = testRespond(FALSE, "Invalid API key or request format")
        /\ EveryProbeAnswered(404) =>
              tResp = testRespond(FALSE, "Model not available for this API key")

\* the provider refused all four models with 403
C16_Witness ==
    /\ tPc = "done"
    /\ tReq.service = "gemini"
    /\ Len(tProbes) = Len(modelsToTry)
    /\ EveryProbeAnswered(403)
    /\ tResp.sent

\* the request parsed, carries a key and names a known service
ProbingRequest ==
    /\ tReq.json = "ok"
    /\ tReq.apiKey # ""
    /\ tReq.service \in KnownServices

\* C17: each call of the credential test endpoint with a non-empty apiKey
\* and a known service performs exactly one probe call to the named
\* provider before it returns {success, error}.
C17_ExactlyOneProbe ==
    (tPc = "done" /\ ProbingRequest) => Len(tProbes) = 1

\* a probe answered 2xx with candidates
AnsweredWithCandidates(probe) ==
    /\ probe.outcome.kind = "http"
    /\ probe.outcome.status \in 200..299
    /\ probe.outcome.body = "candidates"

\* C17, amended: such a call performs exactly one probe for huggingface and
\* pexels; for gemini it performs between one and four probes, one per
\* model of the list in order, and none after a probe that was answered 2xx
\* with candidates: fewer than four only when the last one was so answered.
C17_OneProbePerModelTried ==
    (tPc = "done" /\ ProbingRequest) =>
        /\ tResp.sent
        /\ tReq.service # "gemini" =>
              Len(tProbes) = 1 /\ tProbes[1].target = tReq.service
        /\ tReq.service = "gemini" =>
              /\ Len(tProbes) \in 1..Len(modelsToTry)
              /\ \A i \in 1..Len(tProbes) : tProbes[i].target = modelsToTry[i]
              /\ \A i \in 1..(Len(tProbes) - 1) : ~AnsweredWithCandidates(tProbes[i])
              /\ Len(tProbes) < Len(modelsToTry) =>
                    AnsweredWithCandidates(tProbes[Len(tProbes)])

\* the first model was refused and the second one answered
C17_Witness ==
    /\ tPc = "done"
    /\ tReq.service = "gemini"
    /\ Len(tProbes) = 2
    /\ tProbes[1].outcome = HttpAnswer(404, "plain")
    /\ tResp.success

\* C18: the credential test for service "huggingface" reports success:true
\* when the probe is answered with a 2xx status or with 503, and
\* success:false with error "Failed to connect to Hugging Face API" for
\* every other status and for a network error.
C18_HuggingFaceLoadingIsSuccess ==
    (tPc = "done" /\ tReq.service = "huggingface" /\ tProbes # <<>>) =>
        LET o == tProbes[1].outcome
        IN  IF o.kind = "http" /\ (o.status \in 200..299 \/ o.status = 503)
            THEN tResp.sent /\ tResp.success
            ELSE tResp = testRespond(FALSE, "Failed to connect to Hugging Face API")

\* the model was still loading
C18_Witness ==
    /\ tPc = "done"
    /\ tReq.service = "huggingface"
    /\ tProbes # <<>>
    /\ tProbes[1].outcome.kind = "http"
    /\ tProbes[1].outcome.status = 503
    /\ tResp.success

\* ------------------------------------------------------------------------
\* The news endpoint: hard failures
\* ------------------------------------------------------------------------
\* C19: the news endpoint answers with the failure response (status 500,
\* success:false) only when the request itself is malformed; for a request
\* that parses, no provider outcome (a rejection, an empty list, or any
\* content of the returned records, a missing title included) leads to it.
C19_OnlyMalformedRequestsFail ==
    /\ nResp.status = 500 => nReq # "valid"
    /\ (nPc = "done" /\ nReq = "valid") => (nResp.status = 200 /\ nResp.success)

\* ------------------------------------------------------------------------
\* The outermost handlers of the three endpoints
\* ------------------------------------------------------------------------
\* messages an exception caught by an outermost handler can carry
ExceptionMessages ==
    {"Unexpected end of JSON input",
     "Unexpected token } in JSON at position 1",
     "Invalid time value",
     "Cannot read properties of undefined (reading 'toLowerCase')",
     "Cannot read properties of null (reading 'toLowerCase')"}

\* the catch blocks of the three POST handlers, given the caught message
newsCatch(message) == newsErrorResponse(message)
assetCatch(message) == assetError(500, "Failed to gather visual assets", message)
pipeCatch(message) == pipeError(500, "Internal server error")

\* C20: when an internal exception reaches the outermost handler of the
\* news, asset or pipeline endpoint, the body of the 500 response is
\* generic: it is the body the handler gives for any other message of the
\* exception, so the message is not exposed to the caller.
C20_FailureBodyHidesTheMessage ==
    /\ nResp.status = 500 => \A m \in ExceptionMessages : nResp = newsCatch(m)
    /\ aResp.status = 500 => \A m \in ExceptionMessages : aResp = assetCatch(m)
    /\ pResp.status = 500 => \A m \in ExceptionMessages : pResp = pipeCatch(m)

\* ------------------------------------------------------------------------
\* The pipeline endpoint: termination
\* ------------------------------------------------------------------------
\* Every outbound call of the pipeline (identity lookup, credential lookup,
\* text generation, archive creation, each upload) eventually completes or
\* fails: the handler, which has no loop, always takes its next step.
SpecPipelineLive == SpecPipeline /\ WF_vars(PipeNext)

\* the success response, or one of the error responses
PipeTerminalResponse ==
    \/ pResp.status = 200 /\ pResp.error = "" /\ pResp.downloadUrls = pUrls
    \/ pResp.status \in {400, 401, 500} /\ pResp.error # "" /\ pResp.downloadUrls = NoUrls

\* C21: every pipeline request eventually reaches a terminal state; there
\* the response is either the success response or an error response (401,
\* 400 or 500), never both and never none: no response exists before, and
\* the one sent is never replaced.
C21_ExactlyOneTerminalState ==
    /\ <>(pPc = "done")
    /\ [](IF pPc = "done" THEN PipeTerminalResponse ELSE pResp = NoPipeResponse)
    /\ [][pPc = "done" => (pPc' = "done" /\ pResp' = pResp)]_vars

\* the request ended with the error response after four stages had run
C21_Witness ==
    /\ pPc = "done"
    /\ pResp.status = 500
    /\ Started("package")

\* ------------------------------------------------------------------------
\* The news endpoint: order of the merge, truncation
\* ------------------------------------------------------------------------
FulfilledValue(a) == IF nTask[a].status = "fulfilled" THEN nTask[a].value ELSE <<>>
ArticlesInAdapterOrder ==
    FulfilledValue("NewsAPI") \o FulfilledValue("TheNewsAPI") \o FulfilledValue("GNews")
NonEmptySources == Cardinality({a \in NewsAdapterSet : FulfilledValue(a) # <<>>})

\* C22: the merged list passed to dedup is the NewsAPI articles, then the
\* TheNewsAPI articles, then the GNews articles, each in provider order,
\* whatever the order in which the three calls completed; so the response
\* is fixed by the three provider outcomes alone.
C22_MergeInAdapterOrder ==
    (nPc = "done" /\ nReq = "valid") =>
        /\ nMerged = ArticlesInAdapterOrder
        /\ nResp = newsRespondFrom(ArticlesInAdapterOrder, NonEmptySources)

\* GNews completed first and NewsAPI last, and both returned an article
C22_Witness ==
    /\ nPc = "done"
    /\ nOrder = <<"GNews", "TheNewsAPI", "NewsAPI">>
    /\ Len(nMerged) = 2
    /\ nMerged[1].id[1] = 1
    /\ nMerged[2].id[1] = 3
    /\ nResp.status = 200

\* the articles that survive dedup of the merged list
Survivors == Range(removeDuplicateArticles(nMerged).value)

\* C23: truncation to 20 comes after dedup and sort: the returned articles
\* are the 20 most recent dedup survivors, so no survivor left out of the
\* response has a publishedAt strictly later than a returned article, and
\* when there are at most 20 survivors all of them are returned.
C23_TruncationKeepsTheMostRecent ==
    nResp.status = 200 =>
        LET returned == Range(nResp.articles)
        IN  /\ returned \subseteq Survivors
            /\ Len(nResp.articles) = MinOf({20, Cardinality(Survivors)})
            /\ Cardinality(returned) = Len(nResp.articles)
            /\ \A s \in Survivors \ returned : \A r \in returned :
                  (s.publishedAt # InvalidDate /\ r.publishedAt # InvalidDate)
                      => s.publishedAt <= r.publishedAt

\* ------------------------------------------------------------------------
\* removeDuplicateArticles and calculateSimilarity: further properties
\* ------------------------------------------------------------------------
\* positions of the input whose article is in the output
KeptPositions == {i \in 1..Len(dedupIn) : \E k \in 1..Len(dedupOut.value) : dedupOut.value[k] = dedupIn[i]}

AboveThreshold(x, y) ==
    LET r == TitleSimilarity(x, y) IN 10 * r.num > 8 * r.den

\* C24: when removeDuplicateArticles returns, an article is dropped if and
\* only if some article accepted earlier in the list, not only the most
\* recent one, has similarity above the threshold with it; the first
\* article of the input is kept and the output is a subsequence of the
\* input in input order.
C24_DroppedIffSimilarToAnAccepted ==
    (dedupPc = "done" /\ ~dedupOut.threw) =>
        /\ \A i \in 1..Len(dedupIn) :
              i \notin KeptPositions <=>
                  \E j \in KeptPositions : j < i /\ AboveThreshold(dedupIn[i], dedupIn[j])
        /\ dedupIn # <<>> => (dedupOut.value # <<>> /\ dedupOut.value[1] = dedupIn[1])
        /\ Len(dedupOut.value) = Cardinality(KeptPositions)
        /\ \A k, l \in 1..Len(dedupOut.value) :
              k < l => dedupOut.value[k].id < dedupOut.value[l].id

\* the third article repeats the first and is unlike the second
C24_Witness ==
    /\ dedupPc = "done"
    /\ ~dedupOut.threw
    /\ Len(dedupIn) = 3
    /\ KeptPositions = {1, 2}
    /\ AboveThreshold(dedupIn[3], dedupIn[1])
    /\ ~AboveThreshold(dedupIn[3], dedupIn[2])

\* ---- specification: the dedup score of every pair of short titles -------
ScoreTitles ==
    {<<"a", " ", "b">>,
     <<"A", " ", "B">>,
     <<"a", " ", "b", "!">>,
     <<"a", " ", "-", " ", "b">>,
     <<"a", ",", " ", "b">>,
     <<"a", " ", " ", "b">>,
     <<" ", "a", " ", "b", " ">>,
     <<"b", " ", "a">>,
     <<"a", "_", "b">>,
     <<"a", "b">>,
     <<"a">>,
     <<"a", " ", "b", " ", "c">>,
     <<>>}

ScoreInit ==
    /\ simPc = "titles"
    /\ str1 \in ScoreTitles
    /\ str2 \in ScoreTitles
    /\ simFwd = NoRatio
    /\ simRev = NoRatio
    /\ SimRest

\* removeDuplicateArticles, lines 203-209: both titles are normalized, then
\* calculateSimilarity gives the score
ScoreApply ==
    /\ simPc = "titles"
    /\ simFwd' = calculateSimilarity(normalizeTitle(str1), normalizeTitle(str2))
    /\ simRev' = calculateSimilarity(normalizeTitle(str2), normalizeTitle(str1))
    /\ simPc' = "scored"
    /\ UNCHANGED <<str1, str2>>
    /\ SimFrame

ScoreNext == ScoreApply

SpecScore == ScoreInit /\ [][ScoreNext]_vars

\* The Jaccard index as the contract words it: the words of a title are its
\* maximal runs of non-blank characters after lowercasing, removing every
\* character that is neither a letter, a digit nor blank, and trimming.
IsAlphanumeric(c) == c \in Range(LowerLetters) \cup Range(UpperLetters) \cup DigitChars
KeptAsWordOrBlank(c) == IsAlphanumeric(c) \/ IsSpaceChar(c)

RECURSIVE RunsOfNonBlank(_, _)
RunsOfNonBlank(s, run) ==
    IF s = <<>> THEN (IF run = <<>> THEN {} ELSE {run})
    ELSE IF IsSpaceChar(Head(s))
    THEN (IF run = <<>> THEN {} ELSE {run}) \cup RunsOfNonBlank(Tail(s), <<>>)
    ELSE RunsOfNonBlank(Tail(s), Append(run, Head(s)))

WordsOfTitle(title) ==
    RunsOfNonBlank(trim(SelectSeq(toLowerCase(title), KeptAsWordOrBlank)), <<>>)

JaccardIndex(A, B) == [num |-> Cardinality(A \cap B), den |-> Cardinality(A \cup B)]

\* C25: for every pair of titles the score used by article dedup equals the
\* Jaccard index of their word sets (words delimited by whitespace, after
\* lowercasing, removing non-alphanumeric characters and trimming); so two
\* titles that differ only in letter case or punctuation, a punctuation
\* mark standing alone between two spaces included, score 1.0.
C25_ScoreIsJaccardOfWords ==
    simPc = "scored" =>
        LET A == WordsOfTitle(str1)
            B == WordsOfTitle(str2)
        IN  /\ A \cup B # {} => RatioEq(simFwd, JaccardIndex(A, B))
            /\ (A = B /\ A # {}) => simFwd.num = simFwd.den

Max0(n) == IF n > 0 THEN n ELSE 0

\* C26: every success response of the asset endpoint carries at most
\* max(imageCount, 0) images and at most max(videoCount, 0) videos, for zero
\* and negative counts too, and totalImages and totalVideos are the lengths
\* of the two lists.
C26_ListsCappedAtRequestedCounts ==
    (aPc = "done" /\ aResp.status = 200) =>
        /\ Len(aResp.images) <= Max0(aReq.imageCount)
        /\ Len(aResp.videos) <= Max0(aReq.videoCount)
        /\ aResp.totalImages = Len(aResp.images)
        /\ aResp.totalVideos = Len(aResp.videos)

\* what the sources that fulfilled returned, in the order they are called
RECURSIVE ValuesOfFulfilled(_, _)
ValuesOfFulfilled(names, k) ==
    IF k > Len(names) THEN <<>>
    ELSE (IF aSrc[names[k]].status = "fulfilled" THEN aSrc[names[k]].value ELSE <<>>)
         \o ValuesOfFulfilled(names, k + 1)

SomeSourceRejected(names) == \E k \in 1..Len(names) : aSrc[names[k]].status = "rejected"

\* C27: once the asset endpoint has started gathering, its response is
\* success:true; the images are the dedup and cut of everything the image
\* sources that fulfilled returned, whichever image sources rejected; the
\* videos are the cut of what the video source returned, whether or not
\* the image gathering as a whole failed, and the images do not depend on
\* the video gathering.
C27_FailuresAreIsolated ==
    (aPc = "done" /\ aReq.json = "ok" /\ aReq.keywords = "some") =>
        /\ aResp.status = 200
        /\ aResp.success
        /\ aResp.images = finishImages(ValuesOfFulfilled(ImageSources, 1), aReq.imageCount).value
        /\ aResp.videos = finishVideos(ValuesOfFulfilled(VideoSources, 1), aReq.videoCount).value

C27_Witness ==
    /\ aPc = "done"
    /\ aSrc["PexelsImages"].status = "rejected"
    /\ aSrc["UnsplashImages"].status = "fulfilled"
    /\ aSrc["UnsplashImages"].value # <<>>
    /\ aResp.images = aSrc["UnsplashImages"].value
    /\ SomeSourceRejected(VideoSources)

\* the error the outcome of the first model alone leads to when every
\* model fails (lines 85-101 for the first model, then line 108)
ErrorFromFirstOutcome(o) ==
    IF o.kind = "network" \/ o.body = "unreadable" THEN "Network error or invalid API key"
    ELSE IF o.status = 400 THEN "Invalid API key or request format"
    ELSE IF o.status = 403 THEN "API key does not have permission or quota exceeded"
    ELSE IF o.status = 404 THEN "Model not available for this API key"
    ELSE IF o.status \notin 200..299 THEN "API error: " \o ToString(o.status)
    ELSE "No compatible Gemini models available for this API key"

\* C28: the Gemini test probes the models in the order gemini-2.0-flash-exp,
\* gemini-1.5-pro, gemini-1.5-flash, gemini-pro, at most four times and
\* never after a probe answered 2xx with a candidate; it answers
\* success:true when some probe was so answered, and otherwise it answers
\* success:false after the fourth probe with an error that is a function
\* of the first model's outcome alone (the 'No compatible Gemini models'
\* message when the first model left no error).
C28_GeminiProbesInOrderErrorFromFirst ==
    tReq.service = "gemini" =>
        /\ Len(tProbes) <= 4
        /\ \A i \in 1..Len(tProbes) :
              tProbes[i].target =
                  <<"gemini-2.0-flash-exp", "gemini-1.5-pro", "gemini-1.5-flash", "gemini-pro">>[i]
        /\ \A i \in 1..(Len(tProbes) - 1) : ~AnsweredWithCandidates(tProbes[i])
        /\ tPc = "gemini" => ~tResp.sent
        /\ (tPc = "done" /\ tProbes # <<>>) =>
              IF \E i \in 1..Len(tProbes) : AnsweredWithCandidates(tProbes[i])
              THEN tResp.success
              ELSE /\ Len(tProbes) = 4
                   /\ ~tResp.success
                   /\ tResp.error = ErrorFromFirstOutcome(tProbes[1].outcome)

\* the first model answered 200 without candidates, a later one was refused
C28_Witness ==
    /\ tPc = "done"
    /\ tReq.service = "gemini"
    /\ Len(tProbes) = 4
    /\ tProbes[1].outcome = HttpAnswer(200, "plain")
    /\ tProbes[3].outcome = HttpAnswer(403, "plain")
    /\ tResp.error = "No compatible Gemini models available for this API key"

\* C29: every response of the credential test endpoint has success = true
\* exactly when its error is the empty string: for gemini, huggingface,
\* pexels and unknown services, with and without an apiKey, for every
\* outcome of the probes and for a request whose body does not parse.
C29_SuccessIffNoError ==
    tResp.sent => (tResp.success <=> tResp.error = "")

\* the body did not parse and the outer handler answered
C29_Witness ==
    /\ tPc = "done"
    /\ tReq.json = "bad"
    /\ tResp.sent
    /\ ~tResp.success
    /\ tResp.error = "Connection test failed"

\* ---- specification: either dedup operation applied to one input list ----
BothDedupsInit == DedupInit \/ ImgInit

BothDedupsNext ==
    \/ DedupApply
    \/ ImgApply

SpecBothDedups == BothDedupsInit /\ [][BothDedupsNext]_vars

\* f(f(xs)) given the outcome of f(xs): an exception of the inner call
\* is the outcome of the composition
articlesDedupAgain(once) == IF once.threw THEN once ELSE removeDuplicateArticles(once.value)
imagesDedupAgain(once) == IF once.threw THEN once ELSE removeDuplicateImages(once.value)

\* C30: both dedup operations are idempotent: for every input list,
\* removeDuplicateArticles applied to its own outcome gives that outcome
\* again, and so does removeDuplicateImages.
C30_DedupsAreIdempotent ==
    /\ dedupPc = "done" => articlesDedupAgain(dedupOut) = dedupOut
    /\ imgPc = "done" => imagesDedupAgain(imgOut) = imgOut

\* two of the three articles were duplicates of the first
C30_Witness ==
    /\ dedupPc = "done"
    /\ ~dedupOut.threw
    /\ Len(dedupIn) = 3
    /\ Len(dedupOut.value) = 1
    /\ dedupIn[2].title # dedupIn[1].title
====
